---------------------------- MODULE Spec2Model ----------------------------
(* Render scheduler of acgraph.vector.Stage (src/src/vector/Stage.js).      *)
(*                                                                          *)
(* JavaScript is single-threaded: every public method runs to completion,   *)
(* so each method call is one atomic action.  The only deferred work is the *)
(* callback renderAsync_ queued with setTimeout (a "tick") and the image    *)
(* loader's COMPLETE event.  Methods are written as operators from a stage  *)
(* record to a stage record so that resume(), container(), width() and      *)
(* height() can call render()/renderAsync() exactly as the source does.     *)
EXTENDS Integers, Sequences, FiniteSets, TLC

\* ---------------------------------------------------------------- bounds
MaxSuspend == 2     \* suspend() is not offered above this nesting depth
NumNodes == 2       \* children of the root layer
MaxClipQueue == 2   \* addClipForRender() is not offered on a longer queue
MaxBudget == 1      \* the per-tick quota maxDomChanges the stage is run with
MaxQuota == 4       \* largest maxDomChanges of the allocator specification
MaxWanted == 2      \* largest argument of a direct allocator call
MaxCount == 6       \* direct allocator calls keep |currentDomChangesCount| below
MaxBatch == 2       \* longest batch of scene mutations replayed as a whole

\* ------------------------------------------------------ program constants
Nodes == 1..NumNodes
Clips == {1, 2}
NoElement == 0      \* null
WrapperDiv == 1     \* the wrapper DIV container() creates (line 594)
RootElement == 1    \* the root element the constructor creates (line 140)

RENDER_START == "renderstart"
RENDER_FINISH == "renderfinish"
STAGE_RESIZE == "stageresize"
STAGE_RENDERED == "stagerendered"

ELEMENT_CREATE == 1
ELEMENT_ADD == 2
ELEMENT_REMOVE == 3
APPLY_FILL == 4
APPLY_STROKE == 5

NoError == "none"
Undefined == "undefined"   \* a call that returns no value of interest
CONTAINER_SHOULD_BE_DEFINED == "CONTAINER_SHOULD_BE_DEFINED"
DIRTY_AFTER_SYNC_RENDER == "DIRTY_AFTER_SYNC_RENDER"
TypeError == "TypeError"

VARIABLES
  suspended_,             \* this.suspended_
  container_,             \* this.container_: NoElement or WrapperDiv
  originContainer_,       \* this.originContainer_: NoElement or an origin
  domParent,              \* where this.domElement_ sits: "none", "current" (in
                          \* this.container_) or "dropped" (in a wrapper DIV
                          \* that container(null) let go of)
  asyncMode_,             \* this.asyncMode_
  isRendering_,           \* this.isRendering_
  acquireDomChanges,      \* installed policy: "Sync" or "Async"
  currentDomChangesCount, \* this.currentDomChangesCount
  maxDomChanges,          \* this.maxDomChanges
  clipsToRender_,         \* this.clipsToRender_
  clipDirty,              \* clip.isDirty() of every clip
  rootLayer_,             \* pending state of every child of the root layer
  imageLoading,           \* renderer.isImageLoading()
  imageLoadingListener_,  \* this.imageLoadingListener_ is set
  loaderListeners,        \* COMPLETE listeners of this stage on the image
                          \* loader (listenOnce: gone once they have run)
  timers,                 \* renderAsync_ callbacks queued with setTimeout
  op,                     \* the call that produced this state
  args,                   \* the arguments of that call (allocator calls)
  ret,                    \* the value that call returned (allocator calls)
  thrown,                 \* the error that call raised, or NoError
  emitted,                \* the events that call dispatched, in order
  work,                   \* renderInternal() runs during that call
  applied,                \* backend mutations applied during that call
  appends,                \* appendChild(container, root element) during it
  domElement_,            \* this.domElement_: the root element, or NoElement
  disposed_,              \* goog.Disposable's flag: dispose() has run
  flushOrder,             \* what that call rendered, in order: <<"clip", c>>
                          \* for clip c, <<"layer", 0>> for the root layer
  others                  \* the other stages of the page, each with all its
                          \* fields; the renderer and its image loader are
                          \* the page's (acgraph.getRenderer(), lines 179
                          \* and 1055)

vars == <<suspended_, container_, originContainer_, domParent,
          asyncMode_, isRendering_, acquireDomChanges, currentDomChangesCount,
          maxDomChanges, clipsToRender_, clipDirty, rootLayer_, imageLoading,
          imageLoadingListener_, timers, op, args, ret, thrown, emitted, work,
          applied, appends, domElement_, disposed_, flushOrder,
          loaderListeners, others>>

\* The stage as one record, and its write-back.
Cur ==
  [suspended_ |-> suspended_, container_ |-> container_,
   originContainer_ |-> originContainer_,
   domParent |-> domParent, asyncMode_ |-> asyncMode_,
   isRendering_ |-> isRendering_, acquireDomChanges |-> acquireDomChanges,
   currentDomChangesCount |-> currentDomChangesCount,
   maxDomChanges |-> maxDomChanges, clipsToRender_ |-> clipsToRender_,
   clipDirty |-> clipDirty, rootLayer_ |-> rootLayer_,
   imageLoading |-> imageLoading,
   imageLoadingListener_ |-> imageLoadingListener_, timers |-> timers,
   op |-> op, args |-> args, ret |-> ret, thrown |-> thrown,
   emitted |-> emitted, work |-> work, applied |-> applied,
   appends |-> appends, domElement_ |-> domElement_,
   disposed_ |-> disposed_, flushOrder |-> flushOrder,
   loaderListeners |-> loaderListeners]

Holds(s) ==
  /\ suspended_ = s.suspended_
  /\ container_ = s.container_
  /\ originContainer_ = s.originContainer_
  /\ domParent = s.domParent
  /\ asyncMode_ = s.asyncMode_
  /\ isRendering_ = s.isRendering_
  /\ acquireDomChanges = s.acquireDomChanges
  /\ currentDomChangesCount = s.currentDomChangesCount
  /\ maxDomChanges = s.maxDomChanges
  /\ clipsToRender_ = s.clipsToRender_
  /\ clipDirty = s.clipDirty
  /\ rootLayer_ = s.rootLayer_
  /\ imageLoading = s.imageLoading
  /\ imageLoadingListener_ = s.imageLoadingListener_
  /\ timers = s.timers
  /\ op = s.op
  /\ args = s.args
  /\ ret = s.ret
  /\ thrown = s.thrown
  /\ emitted = s.emitted
  /\ work = s.work
  /\ applied = s.applied
  /\ appends = s.appends
  /\ domElement_ = s.domElement_
  /\ disposed_ = s.disposed_
  /\ flushOrder = s.flushOrder
  /\ loaderListeners = s.loaderListeners

\* The stages a step leaves are computed once and written back.
CommitPair(s, o) ==
  \E r \in {s} :
    /\ others' = o
    /\ suspended_' = r.suspended_
    /\ container_' = r.container_
    /\ originContainer_' = r.originContainer_
    /\ domParent' = r.domParent
    /\ asyncMode_' = r.asyncMode_
    /\ isRendering_' = r.isRendering_
    /\ acquireDomChanges' = r.acquireDomChanges
    /\ currentDomChangesCount' = r.currentDomChangesCount
    /\ maxDomChanges' = r.maxDomChanges
    /\ clipsToRender_' = r.clipsToRender_
    /\ clipDirty' = r.clipDirty
    /\ rootLayer_' = r.rootLayer_
    /\ imageLoading' = r.imageLoading
    /\ imageLoadingListener_' = r.imageLoadingListener_
    /\ timers' = r.timers
    /\ op' = r.op
    /\ args' = r.args
    /\ ret' = r.ret
    /\ thrown' = r.thrown
    /\ emitted' = r.emitted
    /\ work' = r.work
    /\ applied' = r.applied
    /\ appends' = r.appends
    /\ domElement_' = r.domElement_
    /\ disposed_' = r.disposed_
    /\ flushOrder' = r.flushOrder
    /\ loaderListeners' = r.loaderListeners

\* A call of this stage: the other stages see the image loader as the call
\* leaves it.
Commit(s) ==
  \E r \in {s} :
    CommitPair(r, [i \in DOMAIN others |->
                     [others[i] EXCEPT !.imageLoading = r.imageLoading]])

\* A call starts with a clean observation record.
Call(s, name) ==
  [s EXCEPT !.op = name, !.args = <<>>, !.ret = Undefined,
            !.thrown = NoError, !.emitted = <<>>, !.work = 0, !.applied = 0,
            !.appends = 0, !.flushOrder = <<>>]

throw(s, code) == [s EXCEPT !.thrown = code]

Max(a, b) == IF a >= b THEN a ELSE b
Min(a, b) == IF a <= b THEN a ELSE b


\* ------------------------------------------------------------- events
dispatchEvent(s, type) == [s EXCEPT !.emitted = Append(@, type)]

\* Mutant: the flag does not follow the event.
renderingAfterUnchanged(flag, type) == flag

\* dispatchRenderEvent (lines 740-750): the flag follows the event.
renderingAfter(flag, type) ==
  IF type = RENDER_START THEN TRUE
  ELSE IF type = RENDER_FINISH THEN FALSE
  ELSE flag

dispatchRenderEvent(s, type) ==
  dispatchEvent([s EXCEPT !.isRendering_ = renderingAfter(@, type)], type)

\* stageRenderedDispatcher_ (lines 198-201).
stageRenderedDispatcher_(s) ==
  IF ~s.isRendering_ THEN dispatchEvent(s, STAGE_RENDERED) ELSE s

\* Mutant: the listener is registered without keeping its key.
listenOnceForgetting(s) == [s EXCEPT !.loaderListeners = @ + 1]

\* this.imageLoadingListener_ = goog.events.listenOnce(imageLoader, COMPLETE,
\* ...) (lines 183 and 1059).
listenOnce(s) ==
  [s EXCEPT !.imageLoadingListener_ = TRUE, !.loaderListeners = @ + 1]

\* Mutant: STAGE_RENDERED does not wait for the image loader.
settleIgnoringLoader(s) == stageRenderedDispatcher_(s)

\* Tail of render() and of renderAsync_ (lines 1055-1064, 179-188): with an
\* image still loading STAGE_RENDERED waits for the loader's COMPLETE.
settle(s) ==
  IF s.imageLoading
    THEN IF ~s.imageLoadingListener_
           THEN listenOnce(s)
           ELSE s
    ELSE stageRenderedDispatcher_(s)

\* ---------------------------------------------------- budget allocator
\* Allocator calls return the new stage and the returned value.
Ret(s, v) == [st |-> s, ret |-> v]

acquireDomChangesSync_(s, wantedCount) ==
  Ret([s EXCEPT !.currentDomChangesCount = @ + wantedCount], wantedCount)

\* Mutant: the capped policy grants without counting what it granted.
acquireDomChangesAsyncUncounted_(s, wantedCount) ==
  Ret(s, Min(s.maxDomChanges - s.currentDomChangesCount, wantedCount))

acquireDomChangesAsync_(s, wantedCount) ==
  LET allowed == Min(s.maxDomChanges - s.currentDomChangesCount, wantedCount)
  IN  Ret([s EXCEPT !.currentDomChangesCount = @ + allowed], allowed)

\* this.acquireDomChanges(wanted): the installed policy (lines 967-968).
acquire(s, wantedCount) ==
  IF s.acquireDomChanges = "Sync"
    THEN acquireDomChangesSync_(s, wantedCount)
    ELSE acquireDomChangesAsync_(s, wantedCount)

isStructural(changeType) ==
  changeType \in {ELEMENT_CREATE, ELEMENT_ADD, ELEMENT_REMOVE}

acquireDomChange(s, changeType) ==
  IF isStructural(changeType)
    THEN LET r == acquire(s, 1) IN Ret(r.st, r.ret > 0)
    ELSE Ret(s, TRUE)

\* blockChangesForAdding() (lines 994-998); Math.floor of a non-negative
\* quotient is integer division.
blockChangesForAdding(s) ==
  LET wanted == Max(s.maxDomChanges - s.currentDomChangesCount, 0) \div 3
  IN  acquire(s, wanted)

\* Mutant: a release gives back all that was allowed, used or not.
releaseDomChangesAll(s, allowed, made) ==
  [s EXCEPT !.currentDomChangesCount = @ - allowed]

\* releaseDomChanges(allowed, made) (lines 1006-1008).
releaseDomChanges(s, allowed, made) ==
  [s EXCEPT !.currentDomChangesCount = @ - (allowed - made)]

\* The stage after an allocator call, with the value the call returned.
Returned(r) == [r.st EXCEPT !.ret = r.ret]

\* ------------------------------------------------------- the scene tree
\* A child of the root layer is in one of these states:
\*   "none"     not in the scene, no backend element
\*   "add"      added to the scene, backend element not yet created
\*   "ok"       in the scene and in the backend, in sync
\*   "fill"     in the backend, appearance changed
\*   "del"      removed from the scene, backend element not yet removed
\*   "residual" dirty in a way its render() does not clear
NodeStates == {"none", "add", "ok", "fill", "del", "residual"}

layerIsDirty(layer) == \E n \in Nodes : layer[n] \notin {"none", "ok"}

\* Mutant: the stage never reports itself dirty.
isDirtyNever(s) == FALSE

\* Stage.isDirty (lines 1127-1129).
isDirty(s) == layerIsDirty(s.rootLayer_)

Applied(s, n, state) ==
  [s EXCEPT !.rootLayer_[n] = state, !.applied = @ + 1]

\* One child's render(): a structural change asks for one unit and is applied
\* only when the unit is granted; an appearance change is free.
renderChild(s, n) ==
  LET state == s.rootLayer_[n] IN
  CASE state = "add" ->
         LET r == acquireDomChange(s, ELEMENT_CREATE)
         IN  IF r.ret THEN Applied(r.st, n, "ok") ELSE r.st
    [] state = "del" ->
         LET r == acquireDomChange(s, ELEMENT_REMOVE)
         IN  IF r.ret THEN Applied(r.st, n, "none") ELSE r.st
    [] state = "fill" ->
         LET r == acquireDomChange(s, APPLY_FILL)
         IN  IF r.ret THEN Applied(r.st, n, "ok") ELSE r.st
    [] OTHER -> s

\* Layer.render(): the children in paint order.  (The stage a child leaves
\* behind is computed once, as a value, before the next child is rendered.)
RECURSIVE renderChildren(_, _)
renderChildren(s, n) ==
  IF n > NumNodes THEN s
  ELSE CHOOSE out \in {renderChildren(v, n + 1) : v \in {renderChild(s, n)}} :
         TRUE

rootLayerRender(s) ==
  renderChildren([s EXCEPT !.flushOrder = Append(@, <<"layer", 0>>)], 1)

\* clip.render()
clipRender(s, c) ==
  [s EXCEPT !.clipDirty[c] = FALSE, !.applied = @ + 1,
            !.flushOrder = Append(@, <<"clip", c>>)]

RECURSIVE renderClips(_, _)
renderClips(s, i) ==
  IF i > Len(s.clipsToRender_) THEN s
  ELSE LET clip == s.clipsToRender_[i]
       IN  renderClips(IF s.clipDirty[clip] THEN clipRender(s, clip) ELSE s,
                       i + 1)

\* renderInternal (lines 1073-1089): the queued clips first, then the root
\* layer.  Once disposeInternal has deleted this.rootLayer_ (line 2741), the
\* test this.rootLayer_.isDirty() of line 1083 reads a property of undefined.
renderInternal(s) ==
  LET s0 == [s EXCEPT !.work = @ + 1]
      s1 == IF Len(s0.clipsToRender_) > 0
              THEN [renderClips(s0, 1) EXCEPT !.clipsToRender_ = <<>>]
              ELSE s0
  IN  IF s1.disposed_ THEN throw(s1, TypeError)
      ELSE IF isDirty(s1) THEN rootLayerRender(s1) ELSE s1


\* ------------------------------------------------------------ scheduler
\* Mutant: the re-entrancy guard is missing.
alreadyRenderingUnchecked(s) == FALSE

\* The re-entrancy guard of render() (line 1021) and renderAsync() (line 1101).
alreadyRendering(s) == s.isRendering_

\* The container check of render() (line 1028) and renderAsync() (line 1102).
containerMissing(s) == s.container_ = NoElement

\* Mutant: the residual-dirt check is missing.
dirtyAfterSyncUnchecked(s) == FALSE

\* The residual-dirt check of render() (line 1042).
dirtyAfterSync(s) == isDirty(s)

\* Mutant: the root element is appended on every flush.
needsAppendAlways(s) == TRUE

\* "the root element is not in the document, or the container changed"
\* (lines 1034 and 165).
needsAppend(s) == s.domParent # "current"

\* Mutant: the flush puts a newly built root element into the container.
appendChildRebuilding(s) ==
  [s EXCEPT !.domParent = "current", !.appends = @ + 1,
            !.domElement_ = RootElement + 1]

\* goog.dom.appendChild(this.container_, this.domElement_) (lines 1035, 168):
\* the one root element is moved into the current wrapper DIV.
appendChild(s) == [s EXCEPT !.domParent = "current", !.appends = @ + 1]

appendToContainer(s) == IF needsAppend(s) THEN appendChild(s) ELSE s

\* Mutant: a flush starts without resetting the change counter.
startFrameKeepingCount(s, policy) == [s EXCEPT !.acquireDomChanges = policy]

\* The head of a synchronous flush (lines 1022-1024) and of a tick (lines
\* 159-161): the change counter is reset and the policy installed.
startFrame(s, policy) ==
  [s EXCEPT !.currentDomChangesCount = 0, !.acquireDomChanges = policy]

\* render() (lines 1020-1066).
render(s) ==
  IF alreadyRendering(s) THEN s
  ELSE
    LET s1 == dispatchRenderEvent(startFrame(s, "Sync"), RENDER_START)
    IN  IF containerMissing(s1) THEN throw(s1, CONTAINER_SHOULD_BE_DEFINED)
        ELSE
          LET r == renderInternal(s1)
              s2 == appendToContainer(r)
          IN  IF r.thrown # NoError THEN r
              ELSE IF dirtyAfterSync(s2)
                THEN throw(s2, DIRTY_AFTER_SYNC_RENDER)
              ELSE settle(dispatchRenderEvent(s2, RENDER_FINISH))

\* Mutant: the callback is not queued.
setTimeoutDropped(s) == s

\* setTimeout(this.renderAsync_, 0) (lines 172 and 1107).
setTimeout(s) == [s EXCEPT !.timers = @ + 1]

\* renderAsync() (lines 1100-1111).
renderAsync(s) ==
  IF ~alreadyRendering(s)
    THEN IF containerMissing(s) THEN throw(s, CONTAINER_SHOULD_BE_DEFINED)
         ELSE setTimeout(dispatchRenderEvent(s, RENDER_START))
    ELSE s

\* The callback renderAsync_ (lines 157-190), one tick.  Appending the root
\* element to a null container (line 168) raises a TypeError in the renderer.
renderAsync_(s) ==
  LET s1 == renderInternal(startFrame(s, "Async"))
  IN  IF s1.thrown # NoError THEN s1
      ELSE IF s1.container_ = NoElement THEN throw(s1, TypeError)
      ELSE
        LET s2 == appendToContainer(s1)
        IN  IF isDirty(s2) THEN setTimeout(s2)
            ELSE settle(dispatchRenderEvent(s2, RENDER_FINISH))

\* The timer fires: the queued callback leaves the queue and runs.
tick(s) == renderAsync_([Call(s, "tick") EXCEPT !.timers = @ - 1])

\* The ticks of the chain outstanding in s fired one after the other, no
\* call in between: the stage each tick leaves, for at most fuel ticks.
RECURSIVE chain(_, _)
chain(s, fuel) ==
  IF s.timers = 0 \/ fuel = 0 THEN <<>>
  ELSE CHOOSE out \in {<<t>> \o chain(t, fuel - 1) : t \in {tick(s)}} : TRUE

\* Mutant: suspend() also drops the clips waiting for the next flush.
suspendDroppingClips(s) ==
  [s EXCEPT !.suspended_ = @ + 1, !.clipsToRender_ = <<>>]

\* suspend() (lines 678-681).
suspend(s) == [s EXCEPT !.suspended_ = @ + 1]

\* Mutant: the decrement is not clamped at zero.
resumeCounterUnclamped(n, opt_force) == IF opt_force THEN 0 ELSE n - 1

\* The counter after resume(opt_force) (line 691).
resumeCounter(n, opt_force) == IF opt_force THEN 0 ELSE Max(n - 1, 0)

\* Mutant: resume() flushes whatever the counter is.
resumeFlushesIgnoringCounter(s) == s.container_ # NoElement

\* Mutant: resume() tests the counter the wrong way round.
resumeFlushesInverted(s) == s.suspended_ # 0 /\ s.container_ # NoElement

\* The flush condition of resume() (line 692).
resumeFlushes(s) == s.suspended_ = 0 /\ s.container_ # NoElement

\* resume(opt_force) (lines 690-699).
resume(s, opt_force) ==
  LET s1 == [s EXCEPT !.suspended_ = resumeCounter(@, opt_force)]
  IN  IF resumeFlushes(s1)
        THEN IF s1.asyncMode_ THEN renderAsync(s1) ELSE render(s1)
        ELSE s1

\* asyncMode(opt_value) as a setter (lines 709-715).
asyncMode(s, opt_value) == [s EXCEPT !.asyncMode_ = opt_value]

\* Mutant: the stage never reports itself suspended.
isSuspendedNever(s) == FALSE

\* isSuspended() (lines 722-724).
isSuspended(s) == s.suspended_ # 0

\* width(opt_value) and height(opt_value) as setters (lines 494-518, 537-561):
\* the size itself does not reach the scheduler, the flush does.
resize(s) ==
  IF s.suspended_ = 0 /\ s.container_ # NoElement
    THEN LET s1 == render(s)
         IN  IF s1.thrown # NoError THEN s1
             ELSE dispatchEvent(s1, STAGE_RESIZE)
    ELSE s

\* container(opt_value) as a setter (lines 584-623).  The wrapper DIV is
\* created when there is none and kept until container(null) drops it; the
\* root element, if it sat in the dropped DIV, stays there.
container(s, opt_value) ==
  LET s1 == [s EXCEPT !.originContainer_ = opt_value]
      s2 == IF opt_value # NoElement
              THEN IF s1.container_ = NoElement
                     THEN [s1 EXCEPT !.container_ = WrapperDiv]
                     ELSE s1
              ELSE [s1 EXCEPT !.container_ = NoElement,
                              !.domParent =
                                 IF @ = "current" THEN "dropped" ELSE @]
  IN  IF ~isSuspended(s2) /\ s2.container_ # NoElement THEN render(s2) ELSE s2

\* addClipForRender(clip) (lines 2541-2547); the clip calls it when it changed.
addClipForRender(s, clip) ==
  LET s1 == [s EXCEPT !.clipDirty[clip] = TRUE]
  IN  IF ~isSuspended(s1) THEN clipRender(s1, clip)
      ELSE [s1 EXCEPT !.clipsToRender_ = Append(@, clip)]

\* goog.array.remove: the first occurrence only.
RECURSIVE arrayRemove(_, _)
arrayRemove(arr, x) ==
  IF arr = <<>> THEN <<>>
  ELSE IF Head(arr) = x THEN Tail(arr)
  ELSE <<Head(arr)>> \o arrayRemove(Tail(arr), x)

\* removeClipFromRender(clip) (lines 2554-2556).
removeClipFromRender(s, clip) ==
  [s EXCEPT !.clipsToRender_ = arrayRemove(@, clip)]

\* The image loader's COMPLETE event: every listenOnce handler of lines
\* 183-186 and 1059-1062 that this stage registered runs and is gone.
completeListener(s) ==
  [stageRenderedDispatcher_(s) EXCEPT !.imageLoadingListener_ = FALSE]

RECURSIVE runListeners(_)
runListeners(s) ==
  IF s.loaderListeners = 0 THEN s
  ELSE runListeners(completeListener([s EXCEPT !.loaderListeners = @ - 1]))

loaderComplete(s) == runListeners([s EXCEPT !.imageLoading = FALSE])

\* goog.dispose(this.rootLayer_) (line 2739): the layer lets go of every
\* child and of its backend handles.
layerDispose(s) == [s EXCEPT !.rootLayer_ = [n \in Nodes |-> "none"]]

\* disposeInternal (lines 2729-2751): the root layer is disposed, one last
\* renderInternal() runs, the root layer is deleted, the wrapper DIV leaves
\* the document and the element references are nulled.  Nothing touches the
\* timer queue.
disposeInternal(s) ==
  LET s1 == renderInternal(layerDispose(s))
  IN  [s1 EXCEPT !.disposed_ = TRUE, !.domParent = "none",
                 !.domElement_ = NoElement, !.container_ = NoElement,
                 !.originContainer_ = NoElement]

\* dispose() (lines 2723-2725): goog.Disposable runs disposeInternal once.
dispose(s) == IF s.disposed_ THEN s ELSE disposeInternal(s)

\* ---------------------------------------------------------- construction
Origins == {1}

\* maxDomChanges is a tunable field (line 431, 500 by default).  The stage is
\* run with a quota small enough for the cap to bind on a tree of NumNodes.
Budgets == {MaxBudget}

\* The fields as the constructor sets them before its final resume()
\* (lines 60-239): suspended once, nothing rendered, the root layer empty.
NewStage(quota) ==
  [suspended_ |-> 1, container_ |-> NoElement, originContainer_ |-> NoElement,
   domParent |-> "none", asyncMode_ |-> FALSE,
   isRendering_ |-> FALSE, acquireDomChanges |-> "Sync",
   currentDomChangesCount |-> 0, maxDomChanges |-> quota,
   clipsToRender_ |-> <<>>, clipDirty |-> [c \in Clips |-> FALSE],
   rootLayer_ |-> [n \in Nodes |-> "none"], imageLoading |-> FALSE,
   imageLoadingListener_ |-> FALSE, timers |-> 0, op |-> "new",
   args |-> <<>>, ret |-> Undefined, thrown |-> NoError, emitted |-> <<>>,
   work |-> 0, applied |-> 0, appends |-> 0, domElement_ |-> RootElement,
   disposed_ |-> FALSE, flushOrder |-> <<>>, loaderListeners |-> 0]

\* new Stage(opt_container): container(opt_container) at line 131, resume()
\* at line 240.
construct(opt_container, quota) ==
  resume(container(NewStage(quota), opt_container), FALSE)

\* The second stage of the page, created in a container of its own.  What
\* its last call returned, raised and dispatched is not kept.
Unobserved(s) == Call(s, "other")

Second(quota) == Unobserved(construct(CHOOSE c \in Origins : TRUE, quota))

\* new Stage(container), or new Stage() with the container set later; the
\* only stage of its page.
Init ==
  \E quota \in Budgets :
    /\ others = <<>>
    /\ \/ \E c \in Origins : Holds(construct(c, quota))
       \/ Holds(construct(NoElement, quota))

\* ------------------------------------------------------- scene mutations
\* Scene mutations reach the stage only as dirty state: the stage's
\* setDirtyState is empty (lines 1118-1120).  A mutation that does not apply
\* to the child as it is (adding a child that is there, removing one that is
\* not, filling one that has no backend element yet) changes nothing; a child
\* added back before its removal was flushed has to be placed again.
addChild(s, n) ==
  IF s.rootLayer_[n] \in {"none", "del"}
    THEN [s EXCEPT !.rootLayer_[n] = "add"]
    ELSE s

removeChild(s, n) ==
  IF s.rootLayer_[n] \in {"none", "del"} THEN s
  ELSE [s EXCEPT !.rootLayer_[n] = IF @ = "add" THEN "none" ELSE "del"]

fill(s, n) ==
  IF s.rootLayer_[n] = "ok" THEN [s EXCEPT !.rootLayer_[n] = "fill"] ELSE s

Mutations == {"addChild", "removeChild", "fill"} \X Nodes

mutate(s, m) ==
  CASE m[1] = "addChild" -> addChild(s, m[2])
    [] m[1] = "removeChild" -> removeChild(s, m[2])
    [] m[1] = "fill" -> fill(s, m[2])

\* --------------------------------------------------------------- actions
Suspend ==
  /\ suspended_ < MaxSuspend
  /\ Commit(suspend(Call(Cur, "suspend")))

Resume ==
  \E force \in BOOLEAN :
    Commit(resume(Call(Cur, IF force THEN "resumeForce" ELSE "resume"), force))

AsyncMode == \E v \in BOOLEAN : Commit(asyncMode(Call(Cur, "asyncMode"), v))

Render == Commit(render(Call(Cur, "render")))

RenderAsync == Commit(renderAsync(Call(Cur, "renderAsync")))

\* A queued renderAsync_ callback fires.
Tick ==
  /\ timers > 0
  /\ Commit(renderAsync_([Call(Cur, "tick") EXCEPT !.timers = @ - 1]))

Resize == Commit(resize(Call(Cur, "resize")))

Container ==
  \E v \in {NoElement} \cup Origins :
    Commit(container(Call(Cur, "container"), v))

\* Scene mutations.  They reach the stage only as dirty state: the stage's
\* setDirtyState is empty (lines 1118-1120).
AddChild ==
  \E n \in Nodes :
    /\ rootLayer_[n] = "none"
    /\ Commit(addChild(Call(Cur, "addChild"), n))

RemoveChild ==
  \E n \in Nodes :
    /\ rootLayer_[n] # "none" /\ rootLayer_[n] # "del"
    /\ Commit(removeChild(Call(Cur, "removeChild"), n))

SetFill ==
  \E n \in Nodes :
    /\ rootLayer_[n] = "ok"
    /\ Commit(fill(Call(Cur, "fill"), n))

\* A change the element's render() fails to clear: the defect line 1042
\* guards against.  One child, the first, has the defect.
DefectiveChange ==
  \E n \in {1} :
    /\ rootLayer_[n] = "ok"
    /\ Commit([Call(Cur, "defect") EXCEPT !.rootLayer_[n] = "residual"])

\* A clip among some changed and calls addClipForRender.
AddClipAmong(some) ==
  \E c \in some :
    /\ Len(clipsToRender_) < MaxClipQueue
    /\ Commit(addClipForRender(
         [Call(Cur, "addClipForRender") EXCEPT !.args = <<c>>], c))

\* The calls of one clip, and those of every clip.
OneClip == {CHOOSE c \in Clips : TRUE}

AddClipForRender == AddClipAmong(OneClip)

AddAnyClipForRender == AddClipAmong(Clips)

RemoveClipFromRender ==
  \E c \in OneClip :
    Commit(removeClipFromRender(
      [Call(Cur, "removeClipFromRender") EXCEPT !.args = <<c>>], c))

ImageLoadStart ==
  /\ ~imageLoading
  /\ Commit([Call(Cur, "imageLoadStart") EXCEPT !.imageLoading = TRUE])

\* The loader's COMPLETE event reaches the listeners of both stages.
LoaderComplete ==
  /\ imageLoading
  /\ CommitPair(loaderComplete(Call(Cur, "loaderComplete")),
                [i \in DOMAIN others |->
                   Unobserved(loaderComplete(others[i]))])

Dispose == Commit(dispose(Call(Cur, "dispose")))

\* container(element) with more than one element to attach to.
Targets == {1, 2}

Reattach ==
  \E v \in {NoElement} \cup Targets :
    Commit(container(Call(Cur, "container"), v))

\* Direct calls of the budget allocator, as an element's render() makes
\* them.  The arguments are any small naturals: the methods validate nothing.
ChangeTypes ==
  {ELEMENT_CREATE, ELEMENT_ADD, ELEMENT_REMOVE, APPLY_FILL, APPLY_STROKE}

AcquireDomChanges ==
  \E wanted \in 0..MaxWanted :
    /\ currentDomChangesCount + wanted <= MaxCount
    /\ Commit(Returned(acquire(
         [Call(Cur, "acquireDomChanges") EXCEPT !.args = <<wanted>>],
         wanted)))

AcquireDomChange ==
  \E changeType \in ChangeTypes :
    /\ currentDomChangesCount < MaxCount
    /\ Commit(Returned(acquireDomChange(
         [Call(Cur, "acquireDomChange") EXCEPT !.args = <<changeType>>],
         changeType)))

BlockChangesForAdding ==
  Commit(Returned(blockChangesForAdding(Call(Cur, "blockChangesForAdding"))))

ReleaseDomChanges ==
  \E allowed \in 0..MaxWanted, made \in 0..MaxWanted :
    /\ currentDomChangesCount - (allowed - made) \in -MaxCount..MaxCount
    /\ Commit(releaseDomChanges(
         [Call(Cur, "releaseDomChanges") EXCEPT !.args = <<allowed, made>>],
         allowed, made))

\* Calls of the second stage.  They run on its own fields; of this stage
\* they leave everything as it is, and what both stages read through
\* acgraph.getRenderer() is the one image loader.
other == others[1]

OtherCommit(o) ==
  \E q \in {o} :
    CommitPair([Cur EXCEPT !.imageLoading = q.imageLoading],
               <<Unobserved(q)>>)

OtherSuspend ==
  /\ other.suspended_ < MaxSuspend
  /\ OtherCommit(suspend(Call(other, "suspend")))

OtherResume == OtherCommit(resume(Call(other, "resume"), FALSE))

OtherRender == OtherCommit(render(Call(other, "render")))

OtherRenderAsync == OtherCommit(renderAsync(Call(other, "renderAsync")))

OtherTick ==
  /\ other.timers > 0
  /\ OtherCommit(tick(other))

OtherAcquireDomChanges ==
  \E wanted \in 1..MaxWanted :
    /\ other.currentDomChangesCount + wanted <= MaxWanted
    /\ OtherCommit(Returned(acquire(
         [Call(other, "acquireDomChanges") EXCEPT !.args = <<wanted>>],
         wanted)))

OtherReleaseDomChanges ==
  \E allowed \in 1..MaxWanted :
    /\ other.currentDomChangesCount - allowed >= 0
    /\ OtherCommit(releaseDomChanges(
         [Call(other, "releaseDomChanges") EXCEPT !.args = <<allowed, 0>>],
         allowed, 0))

\* An image of the second stage starts loading.
OtherImageLoadStart ==
  /\ ~imageLoading
  /\ OtherCommit([Call(other, "imageLoadStart") EXCEPT !.imageLoading = TRUE])

Next ==
  \/ Suspend
  \/ Resume
  \/ AsyncMode
  \/ Render
  \/ RenderAsync
  \/ Tick
  \/ Resize
  \/ Container
  \/ AddChild
  \/ RemoveChild
  \/ SetFill
  \/ DefectiveChange

\* The scheduler and the scene tree.
Spec == Init /\ [][Next]_vars

\* ... with clips queued for rendering; the tree changes by adding children
\* only.
NextClips ==
  \/ Suspend
  \/ Resume
  \/ AsyncMode
  \/ Render
  \/ RenderAsync
  \/ Tick
  \/ Resize
  \/ Container
  \/ AddChild
  \/ AddClipForRender
  \/ RemoveClipFromRender

SpecClips == Init /\ [][NextClips]_vars

\* ... with images loading in the renderer; the stage is not suspended and
\* the tree changes by adding and removing children only.
NextImages ==
  \/ Resume
  \/ Render
  \/ RenderAsync
  \/ Tick
  \/ Resize
  \/ Container
  \/ AddChild
  \/ RemoveChild
  \/ ImageLoadStart
  \/ LoaderComplete

SpecImages == Init /\ [][NextImages]_vars

\* ... where a queued tick does fire and a loading image does complete.
SpecImagesFair ==
  Init /\ [][NextImages]_vars /\ WF_vars(Tick) /\ WF_vars(LoaderComplete)

\* The budget allocator called directly, between flushes and ticks that
\* reset the counter and switch the policy; maxDomChanges is any quota up
\* to MaxQuota.
AllocBudgets == 1..MaxQuota

InitAlloc ==
  \E quota \in AllocBudgets :
    /\ others = <<>>
    /\ \/ \E c \in Origins : Holds(construct(c, quota))
       \/ Holds(construct(NoElement, quota))

NextAlloc ==
  \/ AcquireDomChanges
  \/ AcquireDomChange
  \/ BlockChangesForAdding
  \/ ReleaseDomChanges
  \/ Render
  \/ RenderAsync
  \/ Tick

SpecAlloc == InitAlloc /\ [][NextAlloc]_vars

\* A tick chain left alone: once a renderAsync_ callback is queued the
\* application makes no call until the chain has ended.  setTimeout
\* callbacks fire: a queued tick does not wait for ever.
Quiet == timers = 0

NextDrain ==
  \/ Quiet /\ AddChild
  \/ Quiet /\ RemoveChild
  \/ Quiet /\ SetFill
  \/ Quiet /\ RenderAsync
  \/ Tick

SpecDrain == Init /\ [][NextDrain]_vars /\ WF_vars(Tick)

\* Batches of scene mutations flushed by render(), renderAsync() or
\* resume() in either mode, under every quota up to MaxQuota; tick chains
\* are left alone.
NextBatch ==
  \/ Quiet /\ Suspend
  \/ Quiet /\ Resume
  \/ Quiet /\ AsyncMode
  \/ Quiet /\ AddChild
  \/ Quiet /\ RemoveChild
  \/ Quiet /\ SetFill
  \/ Quiet /\ Render
  \/ Quiet /\ RenderAsync
  \/ Tick

SpecBatch == InitAlloc /\ [][NextBatch]_vars

\* The scene mutated only while the stage is suspended and no tick chain is
\* outstanding: every batch is flushed by the resume() that ends it.
Batching == suspended_ > 0 /\ timers = 0

NextSuspended ==
  \/ Quiet /\ Suspend
  \/ Quiet /\ Resume
  \/ Quiet /\ AsyncMode
  \/ Batching /\ AddChild
  \/ Batching /\ RemoveChild
  \/ Batching /\ SetFill
  \/ Tick

SpecSuspended == Init /\ [][NextSuspended]_vars

\* Several clips queued while the stage is suspended, or while a tick chain
\* keeps resume() from flushing, and rendered by the flushes.
NextQueue ==
  \/ Suspend
  \/ Resume
  \/ Render
  \/ RenderAsync
  \/ Tick
  \/ AddAnyClipForRender

SpecQueue == Init /\ [][NextQueue]_vars

\* Two stages of one page side by side.  This stage shows no image; the
\* second stage does.
NextPair ==
  \/ Render
  \/ RenderAsync
  \/ Tick
  \/ AddChild
  \/ OtherSuspend
  \/ OtherResume
  \/ OtherRender
  \/ OtherRenderAsync
  \/ OtherTick
  \/ OtherAcquireDomChanges
  \/ OtherReleaseDomChanges
  \/ OtherImageLoadStart
  \/ LoaderComplete

InitPair ==
  \E quota \in Budgets :
    /\ others = <<Second(quota)>>
    /\ \/ \E c \in Origins : Holds(construct(c, quota))
       \/ Holds(construct(NoElement, quota))

SpecPair == InitPair /\ [][NextPair]_vars

\* The stage disposed at any moment, a tick chain in progress included.  The
\* tree is not touched through a disposed stage.
NextDispose ==
  \/ Dispose
  \/ Suspend
  \/ Resume
  \/ Render
  \/ RenderAsync
  \/ Tick
  \/ ~disposed_ /\ AddChild
  \/ ~disposed_ /\ RemoveChild

SpecDispose == Init /\ [][NextDispose]_vars

\* The stage moved between the elements of Targets and detached.
NextAttach ==
  \/ Reattach
  \/ Suspend
  \/ Resume
  \/ AsyncMode
  \/ Render
  \/ RenderAsync
  \/ Tick
  \/ AddChild
  \/ RemoveChild

SpecAttach == Init /\ [][NextAttach]_vars


\* ================================================================ claims
Emitted(type) == \E i \in 1..Len(emitted) : emitted[i] = type

ResumeOps == {"resume", "resumeForce"}

\* The fields of the stage and its collaborators, without the observation
\* of the last call.
stageVars ==
  <<suspended_, container_, originContainer_, domParent, asyncMode_,
    isRendering_, acquireDomChanges, currentDomChangesCount, maxDomChanges,
    clipsToRender_, clipDirty, rootLayer_, imageLoading,
    imageLoadingListener_, loaderListeners, timers>>

\* The call did nothing an observer could see.
Silent ==
  /\ thrown = NoError
  /\ emitted = <<>>
  /\ work = 0
  /\ applied = 0

\* C1: while the suspend counter is above zero no flush work is done: a call
\* that ran renderInternal() (a synchronous flush or a tick) ends with
\* suspended_ = 0.  (No flushing call raises the counter, and resume() lowers
\* it before it flushes, so the counter at the end is the counter the flush
\* ran under.)
C1_NoFlushWhileSuspended == work > 0 => suspended_ = 0

\* C2: the suspend counter is never negative; suspend() adds exactly 1,
\* resume() subtracts 1 but stays at 0 from 0, resume(true) sets it to 0, and
\* no other call changes it.
C2_SuspendCounter ==
  /\ suspended_ >= 0
  /\ [][/\ suspended_' >= 0
        /\ op' = "suspend" => suspended_' = suspended_ + 1
        /\ op' = "resume" =>
             suspended_' = IF suspended_ = 0 THEN 0 ELSE suspended_ - 1
        /\ op' = "resumeForce" => suspended_' = 0
        /\ op' \notin ResumeOps \cup {"suspend"} => suspended_' = suspended_
       ]_vars

\* C2 witness: an unforced resume() returned with the counter at 1: it was
\* called at 2, inside a nested suspension, and subtracted exactly 1.
C2_Witness == op = "resume" /\ suspended_ = 1

C4_NestedResume ==
  [][op' \in ResumeOps =>
       /\ (suspended_' > 0 \/ container_' = NoElement) =>
            /\ Silent'
            /\ timers' = timers
            /\ isRendering_' = isRendering_
            /\ rootLayer_' = rootLayer_
       /\ (work' > 0 \/ timers' > timers \/ emitted' # <<>>) =>
            /\ suspended_' = 0
            /\ op' = "resume" => suspended_ <= 1
    ]_vars

\* C4 witness: the first resume() of a nested pair returned with the counter
\* still at 1, a container attached and the tree dirty, and did nothing.
C4_Witness ==
  /\ op = "resume"
  /\ suspended_ = 1
  /\ container_ # NoElement
  /\ ~isRendering_
  /\ layerIsDirty(rootLayer_)
  /\ Silent

\* C5: suspend() changes the suspend counter and nothing else: not the
\* rendering flag, the policy, the change counter, the clip queue, the
\* scheduled ticks or any other field, and it emits and flushes nothing.
C5_SuspendFrame ==
  [][op' = "suspend" =>
       /\ suspended_' = suspended_ + 1
       /\ UNCHANGED <<container_, originContainer_, domParent, asyncMode_,
                      isRendering_, acquireDomChanges,
                      currentDomChangesCount, maxDomChanges, clipsToRender_,
                      clipDirty, rootLayer_, imageLoading,
                      imageLoadingListener_, loaderListeners, timers>>
       /\ Silent'
    ]_vars

\* C5 witness: suspend() returned with a clip queued, a change counter left
\* over from the last flush and the tree dirty.
C5_Witness ==
  /\ op = "suspend"
  /\ clipsToRender_ # <<>>
  /\ currentDomChangesCount > 0
  /\ layerIsDirty(rootLayer_)

\* C6: whenever no tick is scheduled (and, calls being atomic, no
\* synchronous flush is executing) isRendering() is false.
C6_RenderingOnlyDuringFlush == timers = 0 => ~isRendering_

\* C7: render() or renderAsync() called while isRendering_ is true changes
\* no field, emits nothing, raises nothing, schedules nothing and flushes
\* nothing.
C7_ReentrantIgnored ==
  [][(isRendering_ /\ op' \in {"render", "renderAsync"}) =>
       /\ UNCHANGED stageVars
       /\ Silent'
    ]_vars

\* C7 witness: render() returned at once in the middle of a tick chain,
\* with the tree dirty and a clip queued.
C7_Witness ==
  /\ op = "render"
  /\ isRendering_
  /\ timers = 1
  /\ Silent
  /\ layerIsDirty(rootLayer_)
  /\ clipsToRender_ # <<>>

\* C8: every render() or renderAsync() made with no container attached
\* raises CONTAINER_SHOULD_BE_DEFINED and touches nothing in the backend.
C8_MissingContainerReported ==
  (op \in {"render", "renderAsync"} /\ container_ = NoElement) =>
    /\ thrown = CONTAINER_SHOULD_BE_DEFINED
    /\ work = 0
    /\ applied = 0

\* C9 as stated: after a render() that returns normally on a stage with a
\* container (the flush needs one) the root is clean.
C9_Original ==
  (op = "render" /\ thrown = NoError /\ container_ # NoElement) =>
    ~isDirty(Cur)

\* C9 amended: after a render() that was not turned away by the
\* re-entrancy guard (it ran the flush) and returns normally, the root is
\* clean.
C9_Completeness ==
  (op = "render" /\ work > 0 /\ thrown = NoError) => ~isDirty(Cur)

\* C9 witness: render() flushed two pending mutations and returned normally.
C9_Witness ==
  /\ op = "render"
  /\ thrown = NoError
  /\ work = 1
  /\ applied = 2

\* C10: a synchronous flush (render(), directly or from resume(),
\* container() or a resize) that leaves the tree dirty raises
\* DIRTY_AFTER_SYNC_RENDER and emits neither RENDER_FINISH nor
\* STAGE_RENDERED.
C10_DirtyAfterSyncFatal ==
  (op # "tick" /\ work > 0 /\ isDirty(Cur)) =>
    /\ thrown = DIRTY_AFTER_SYNC_RENDER
    /\ ~Emitted(RENDER_FINISH)
    /\ ~Emitted(STAGE_RENDERED)

\* C10 witness: render() raised DIRTY_AFTER_SYNC_RENDER after flushing.
C10_Witness ==
  /\ op = "render"
  /\ thrown = DIRTY_AFTER_SYNC_RENDER
  /\ work = 1
  /\ emitted = <<RENDER_START>>

\* The call before was render() too, and this state is what it left: a
\* render() that is repeated without a mutation in between and finds nothing
\* new to do ends in the state it started from.
RenderRepeated == op = "render" /\ render(Call(Cur, "render")) = Cur

\* C11 as stated: the second of two consecutive render() calls applies
\* nothing to the backend, does not append the root element again and ends
\* with the change counter at 0.
C11_Original ==
  RenderRepeated =>
    /\ applied = 0
    /\ appends = 0
    /\ currentDomChangesCount = 0

\* C11 amended: the second of two consecutive render() calls applies
\* nothing to the backend, does not append the root element again and leaves
\* the tree as it was; it ends with the change counter at 0 unless it was
\* turned away by the re-entrancy guard, which leaves the counter alone.
C11_Idempotence ==
  /\ [](RenderRepeated =>
         /\ applied = 0
         /\ appends = 0
         /\ ~isRendering_ => currentDomChangesCount = 0)
  /\ [][(op = "render" /\ op' = "render") =>
          /\ applied' = 0
          /\ appends' = 0
          /\ rootLayer_' = rootLayer_
          /\ domParent' = domParent
          /\ ~isRendering_ => currentDomChangesCount' = 0
          /\ isRendering_ => currentDomChangesCount' = currentDomChangesCount
       ]_vars

\* C11 witness: a render() ran the flush on a stage whose elements are all
\* in sync and whose root element is attached, and had nothing to do.
C11_Witness ==
  /\ op = "render"
  /\ thrown = NoError
  /\ work = 1
  /\ applied = 0
  /\ appends = 0
  /\ currentDomChangesCount = 0
  /\ domParent = "current"
  /\ \E n \in Nodes : rootLayer_[n] = "ok"

SchedulerOps == {"resume", "resumeForce", "container", "resize"}

\* C12: a flush triggered by resume(), container() or a resize runs through
\* ticks under the capped policy when the mode is incremental (so the call
\* itself flushes nothing), and under the unbounded policy when the mode is
\* synchronous; a tick always runs under the capped policy.
C12_ModeDeterminesPolicy ==
  /\ (op \in SchedulerOps /\ asyncMode_) => work = 0
  /\ (op \in SchedulerOps /\ ~asyncMode_ /\ work > 0) =>
       acquireDomChanges = "Sync"
  /\ op = "tick" => acquireDomChanges = "Async"

\* C13: every acquireDomChanges(wanted) returns a value from 0 to wanted.
C13_AcquireRange ==
  op = "acquireDomChanges" => (0 <= ret /\ ret <= args[1])

\* C14: acquireDomChanges(w) returns w under the unbounded policy, and
\* min(maxDomChanges - currentDomChangesCount, w) under the capped one; the
\* change counter grows by exactly what was granted.
C14_AllocatorReference ==
  [][op' = "acquireDomChanges" =>
       LET w == args'[1] IN
       /\ acquireDomChanges' = acquireDomChanges
       /\ currentDomChangesCount' = currentDomChangesCount + ret'
       /\ IF acquireDomChanges = "Sync"
            THEN ret' = w
            ELSE ret' = Min(maxDomChanges - currentDomChangesCount, w)
    ]_vars

\* C14 witness: the capped policy granted part of what was asked for.
C14_Witness ==
  /\ op = "acquireDomChanges"
  /\ acquireDomChanges = "Async"
  /\ 0 < ret
  /\ ret < args[1]
  /\ currentDomChangesCount = maxDomChanges

\* Structural backend operations of the step: children created or removed.
StructuralOps ==
  Cardinality({n \in Nodes : /\ rootLayer_[n] \in {"add", "del"}
                             /\ rootLayer_'[n] # rootLayer_[n]})

\* C15: a tick runs under the capped policy with the change counter counted
\* from 0: at its end the counter is the number of structural operations
\* the tick performed, and that number is at most maxDomChanges.
C15_BudgetConservation ==
  [][op' = "tick" =>
       /\ acquireDomChanges' = "Async"
       /\ currentDomChangesCount' = StructuralOps
       /\ StructuralOps <= maxDomChanges
    ]_vars

\* C15 witness: a tick used its whole budget and left work for the next.
C15_Witness ==
  /\ op = "tick"
  /\ applied > 0
  /\ currentDomChangesCount = maxDomChanges
  /\ isDirty(Cur)
  /\ timers = 1

\* C16: acquireDomChange(kind) of a structural kind returns true and takes
\* one unit, or, with the capped budget used up, returns false and takes
\* nothing; of an appearance kind it returns true and takes nothing.
C16_AcquireDomChange ==
  [][op' = "acquireDomChange" =>
       IF isStructural(args'[1])
         THEN IF /\ acquireDomChanges = "Async"
                 /\ currentDomChangesCount >= maxDomChanges
                THEN /\ ret' = FALSE
                     /\ currentDomChangesCount' = currentDomChangesCount
                ELSE /\ ret' = TRUE
                     /\ currentDomChangesCount' = currentDomChangesCount + 1
         ELSE /\ ret' = TRUE
              /\ currentDomChangesCount' = currentDomChangesCount
    ]_vars

\* C17: blockChangesForAdding() returns r with
\* 0 <= r <= floor(max(maxDomChanges - currentDomChangesCount, 0) / 3), both
\* read before the call, and the change counter grows by exactly r.
C17_BlockChangesForAdding ==
  [][op' = "blockChangesForAdding" =>
       /\ 0 <= ret'
       /\ ret' <= Max(maxDomChanges - currentDomChangesCount, 0) \div 3
       /\ currentDomChangesCount' = currentDomChangesCount + ret'
    ]_vars

\* C18: releaseDomChanges(allowed, made) lowers the change counter by
\* allowed - made.  Released right after acquireDomChanges granted g, with
\* made = 0, it takes off the g the grant had added (C14).  Under the capped
\* policy, with 0 <= made <= allowed, allowed no more than the units held
\* and the counter within 0..maxDomChanges, the counter stays within
\* 0..maxDomChanges.
C18_Release ==
  [][op' = "releaseDomChanges" =>
       LET allowed == args'[1]
           made == args'[2]
       IN  /\ currentDomChangesCount' =
                currentDomChangesCount - (allowed - made)
           /\ (op = "acquireDomChanges" /\ allowed = ret /\ made = 0) =>
                currentDomChangesCount' = currentDomChangesCount - ret
           /\ (/\ acquireDomChanges = "Async"
               /\ made <= allowed
               /\ allowed <= currentDomChangesCount
               /\ currentDomChangesCount <= maxDomChanges) =>
                currentDomChangesCount' \in 0..maxDomChanges
    ]_vars

\* C18 witness: under the capped policy two units were released with one of
\* them used.
C18_Witness ==
  /\ op = "releaseDomChanges"
  /\ args = <<2, 1>>
  /\ acquireDomChanges = "Async"
  /\ currentDomChangesCount = 1
  /\ maxDomChanges >= 2

\* C19: a tick that leaves the tree dirty queues exactly one more tick, keeps
\* isRendering_ true and does not emit RENDER_FINISH; a tick that leaves the
\* tree clean queues none, clears isRendering_ and emits RENDER_FINISH.
C19_TickOutcome ==
  [][op' = "tick" =>
       IF layerIsDirty(rootLayer_')
         THEN /\ timers' = (timers - 1) + 1
              /\ isRendering_'
              /\ emitted' = <<>>
         ELSE /\ timers' = timers - 1
              /\ ~isRendering_'
              /\ emitted'[1] = RENDER_FINISH
    ]_vars

\* C20: renderAsync(), called with no flush in progress and a container
\* attached, emits RENDER_START, sets isRendering_ and queues exactly one
\* tick; it applies nothing to the backend, does not append the root
\* element, and raises nothing.
C20_RenderAsyncDefers ==
  [][(op' = "renderAsync" /\ ~isRendering_ /\ container_ # NoElement) =>
       /\ emitted' = <<RENDER_START>>
       /\ isRendering_'
       /\ timers' = timers + 1
       /\ thrown' = NoError
       /\ work' = 0
       /\ applied' = 0
       /\ appends' = 0
       /\ rootLayer_' = rootLayer_
       /\ domParent' = domParent
    ]_vars

\* C20 witness: renderAsync() returned with the tree dirty and the root
\* element not yet in the container, one tick queued.
C20_Witness ==
  /\ op = "renderAsync"
  /\ emitted = <<RENDER_START>>
  /\ isRendering_
  /\ timers = 1
  /\ isDirty(Cur)
  /\ domParent # "current"

\* The tick chain has ended: the tree is clean, RENDER_FINISH went out, no
\* flush is in progress and no tick is queued.
ChainEnded ==
  /\ op = "tick"
  /\ Emitted(RENDER_FINISH)
  /\ ~isDirty(Cur)
  /\ ~isRendering_
  /\ timers = 0

\* C21: with a container attached, a quota of at least 1 and no call made
\* while the chain runs, the tick chain renderAsync() starts ends after
\* finitely many ticks with the tree clean, RENDER_FINISH emitted,
\* isRendering_ false and no tick queued; every tick that finds the tree
\* dirty applies at least one pending mutation.
C21_ChainTerminates ==
  /\ [][(op' = "tick" /\ isDirty(Cur)) => applied' >= 1]_vars
  /\ (op = "renderAsync" /\ Emitted(RENDER_START)) ~> ChainEnded

\* C21 witness: the last tick of a chain applied a mutation and ended the
\* chain with the quota used up.
C21_Witness ==
  /\ ChainEnded
  /\ applied >= 1
  /\ currentDomChangesCount = maxDomChanges

\* The render notifications of the last call, in order.
RenderEvents ==
  SelectSeq(emitted, LAMBDA e : e \in {RENDER_START, RENDER_FINISH})

\* C22: RENDER_START and RENDER_FINISH alternate, beginning with
\* RENDER_START; a synchronous flush emits exactly one of each, a tick chain
\* one RENDER_START when it is started and one RENDER_FINISH in its last
\* tick; RENDER_FINISH is emitted only with the tree clean; and a
\* RENDER_START whose RENDER_FINISH is still to come has a tick queued that
\* will bring it.
C22_NotificationsPaired ==
  /\ [](/\ (work > 0 /\ op \notin {"tick", "dispose"}) =>
             RenderEvents = <<RENDER_START, RENDER_FINISH>>
        /\ op = "tick" => RenderEvents \in {<<>>, <<RENDER_FINISH>>}
        /\ Emitted(RENDER_FINISH) => ~isDirty(Cur)
        /\ isRendering_ => timers > 0)
  /\ [][/\ Emitted(RENDER_START)' => ~isRendering_
        /\ (RenderEvents' # <<>> /\ RenderEvents'[1] = RENDER_FINISH) =>
             isRendering_
       ]_vars

\* C23: STAGE_RENDERED is never emitted before the RENDER_FINISH of the
\* same flush nor while a flush is in progress; a flush that finishes while
\* the image loader is loading does not emit it; a flush that finishes with
\* no image loading emits it right after RENDER_FINISH.
C23_RenderedAfterFinish ==
  /\ Emitted(STAGE_RENDERED) => ~isRendering_
  /\ (Emitted(STAGE_RENDERED) /\ op # "loaderComplete") =>
       /\ Emitted(RENDER_FINISH)
       /\ \A i, j \in 1..Len(emitted) :
            (emitted[i] = STAGE_RENDERED /\ emitted[j] = RENDER_FINISH) =>
              j < i
  /\ Emitted(RENDER_FINISH) =>
       IF imageLoading
         THEN ~Emitted(STAGE_RENDERED)
         ELSE \E i \in 1..(Len(emitted) - 1) :
                /\ emitted[i] = RENDER_FINISH
                /\ emitted[i + 1] = STAGE_RENDERED

\* C23 witness: a tick ended its chain while an image was loading: it
\* emitted RENDER_FINISH alone and left the listener for COMPLETE behind.
C23_Witness ==
  /\ op = "tick"
  /\ imageLoading
  /\ emitted = <<RENDER_FINISH>>
  /\ imageLoadingListener_
  /\ applied >= 1

\* C24: every RENDER_FINISH is followed by a STAGE_RENDERED, sooner or
\* later, when queued ticks fire and the image loader completes, whatever
\* render() and renderAsync() calls come in between.
C24_RenderedEventually ==
  Emitted(RENDER_FINISH) ~> Emitted(STAGE_RENDERED)

\* C25: within one flush a queued clip is flushed after its target, a node
\* of the root layer's subtree, never before: no clip flush precedes the
\* root layer's flush.
C25_ClipAfterTarget ==
  \A i, j \in 1..Len(flushOrder) :
    (flushOrder[i][1] = "clip" /\ flushOrder[j][1] = "layer") => j < i

\* C26: the queue of pending clips holds no clip twice, and right after
\* removeClipFromRender(clip) the clip is not in it.
C26_ClipQueueIsSet ==
  /\ \A i, j \in 1..Len(clipsToRender_) :
       clipsToRender_[i] = clipsToRender_[j] => i = j
  /\ op = "removeClipFromRender" =>
       \A i \in 1..Len(clipsToRender_) : clipsToRender_[i] # args[1]

\* C27: a tick that fires after the stage was disposed does nothing: it
\* does no flush work, emits nothing, raises nothing (it does not touch the
\* released root layer, container or root element) and queues no tick.
C27_DisposalGuard ==
  [][(op' = "tick" /\ disposed_) =>
       /\ Silent'
       /\ timers' = timers - 1
       /\ UNCHANGED <<rootLayer_, clipsToRender_, clipDirty, container_,
                      domElement_, domParent, isRendering_,
                      currentDomChangesCount>>
    ]_vars

C29_RootElementKept ==
  /\ domElement_ = RootElement
  /\ Emitted(RENDER_FINISH) =>
       /\ container_ # NoElement
       /\ domParent = "current"

\* C29 witness: container(element) after a detach: the flush moved the root
\* element, whose children were rendered before, into the new wrapper.
C29_Witness ==
  /\ op = "container"
  /\ originContainer_ = 2
  /\ Emitted(RENDER_FINISH)
  /\ appends = 1
  /\ applied = 0
  /\ \E n \in Nodes : rootLayer_[n] = "ok"

\* C30: the constructor starts with the suspend counter at 1 and ends with
\* it at 0.  Given a container, the new stage has run exactly one
\* synchronous flush, which put the root element into the container with no
\* child rendered, left nothing dirty and isRendering_ false; given none,
\* it has run no flush and raised nothing.
C30_Construction ==
  /\ \A quota \in Budgets : NewStage(quota).suspended_ = 1
  /\ op = "new" =>
       /\ suspended_ = 0
       /\ ~isRendering_
       /\ timers = 0
       /\ thrown = NoError
       /\ \A n \in Nodes : rootLayer_[n] = "none"
       /\ IF container_ # NoElement
            THEN /\ work = 1
                 /\ emitted = <<RENDER_START, RENDER_FINISH, STAGE_RENDERED>>
                 /\ appends = 1
                 /\ domParent = "current"
                 /\ applied = 0
                 /\ ~isDirty(Cur)
            ELSE /\ Silent
                 /\ appends = 0
                 /\ domParent = "none"

\* C30 witness: a stage just constructed with a container.
C30_Witness ==
  /\ op = "new"
  /\ container_ # NoElement
  /\ work = 1
  /\ appends = 1

\* C36: a render() or renderAsync() that raised CONTAINER_SHOULD_BE_DEFINED
\* left the stage as it was: isRendering_ is false, RENDER_START was not
\* emitted and no tick is queued, so that a render() made once a container
\* is attached is not turned away.
C36_UnchangedOnConfigError ==
  (op \in {"render", "renderAsync"} /\ thrown = CONTAINER_SHOULD_BE_DEFINED) =>
    /\ ~isRendering_
    /\ ~Emitted(RENDER_START)
    /\ timers = 0

\* C37: at most one tick is queued at any time, and while one is queued
\* isRendering_ is true.
C37_OneTick ==
  /\ timers <= 1
  /\ timers > 0 => isRendering_

\* C37 witness: a resume() that brought the counter to 0 in the middle of a
\* tick chain queued no second tick.
C37_Witness ==
  /\ op \in ResumeOps
  /\ suspended_ = 0
  /\ container_ # NoElement
  /\ asyncMode_
  /\ timers = 1
  /\ isRendering_
  /\ Silent

\* C40: a tick that fires with no container attached reports the missing
\* container as the configuration error and neither flushes nor appends
\* the root element.
C40_TickWithoutContainer ==
  [][(op' = "tick" /\ container_ = NoElement) =>
       /\ thrown' = CONTAINER_SHOULD_BE_DEFINED
       /\ work' = 0
       /\ applied' = 0
       /\ appends' = 0
    ]_vars

\* A child's change that waits for a flush, and the state the child is in
\* once the change is applied.
Pending(state) == state \in {"add", "del", "fill"}

Settled(state) ==
  CASE state = "add" -> "ok"
    [] state = "fill" -> "ok"
    [] state = "del" -> "none"
    [] OTHER -> state

\* C34: a tick clears a child's dirty state only by applying the child's
\* pending mutation, once: every child is after the tick either as it was
\* or, if it was pending, settled, and the tick applied as many mutations as
\* children changed.  After the tick isDirty() is true exactly when a
\* mutation is still pending, and exactly then the next tick is queued.
C34_NothingLostOrRepeated ==
  [][op' = "tick" =>
       /\ \A n \in Nodes :
            \/ rootLayer_'[n] = rootLayer_[n]
            \/ Pending(rootLayer_[n]) /\ rootLayer_'[n] = Settled(rootLayer_[n])
       /\ applied' = Cardinality({n \in Nodes : rootLayer_'[n] # rootLayer_[n]})
       /\ isDirty(Cur)' <=> \E n \in Nodes : Pending(rootLayer_'[n])
       /\ thrown' = NoError =>
            /\ isDirty(Cur)' <=> timers' = 1
            /\ isDirty(Cur)' <=> ~Emitted(RENDER_FINISH)'
    ]_vars

\* C34 witness: a tick used up its quota and left a mutation pending, with
\* the next tick queued.
C34_Witness ==
  /\ op = "tick"
  /\ applied >= 1
  /\ currentDomChangesCount = maxDomChanges
  /\ isDirty(Cur)
  /\ timers = 1

\* The scenario of C31 right after its resume(): every child added and
\* waiting, incremental mode, a quota of 1, the first tick queued.
ScenarioResumed ==
  /\ op = "resume"
  /\ asyncMode_
  /\ maxDomChanges = 1
  /\ container_ # NoElement
  /\ \A n \in Nodes : rootLayer_[n] = "add"
  /\ emitted = <<RENDER_START>>
  /\ timers = 1

RECURSIVE UnitsGranted(_)
UnitsGranted(ticks) ==
  IF ticks = <<>> THEN 0
  ELSE Head(ticks).currentDomChangesCount + UnitsGranted(Tail(ticks))

\* The stage with nothing in progress and a container: a flush can start.
Idle == ~isRendering_ /\ timers = 0 /\ container_ # NoElement

\* C33: from a stage with a given set of pending mutations, the tick chain
\* renderAsync() starts ends, for every quota from 1 to MaxQuota, with every
\* child in the same state, the one a synchronous render() leaves it in,
\* and with the same number of structural units granted over all its
\* ticks: one for every pending addition or removal.
C33_BudgetSplitIndependence ==
  Idle =>
    \A quota \in AllocBudgets :
      LET ticks == chain(renderAsync([Call(Cur, "renderAsync") EXCEPT
                                       !.maxDomChanges = quota]),
                         NumNodes + 2)
          sync == render(Call(Cur, "render"))
      IN  /\ Len(ticks) \in 1..(NumNodes + 1)
          /\ ticks[Len(ticks)].timers = 0
          /\ ~isDirty(ticks[Len(ticks)])
          /\ ticks[Len(ticks)].rootLayer_ = sync.rootLayer_
          /\ sync.rootLayer_ = [n \in Nodes |-> Settled(rootLayer_[n])]
          /\ UnitsGranted(ticks) =
               Cardinality({n \in Nodes : rootLayer_[n] \in {"add", "del"}})

\* C33 witness: a stage on which the split matters: every child has a
\* structural mutation pending, which a quota of 1 drains in one tick per
\* child and a quota of NumNodes in a single tick.
C33_Witness ==
  /\ Idle
  /\ \A n \in Nodes : rootLayer_[n] \in {"add", "del"}
  /\ Len(chain(renderAsync([Call(Cur, "renderAsync") EXCEPT
                              !.maxDomChanges = 1]),
                NumNodes + 2)) = NumNodes
  /\ Len(chain(renderAsync([Call(Cur, "renderAsync") EXCEPT
                              !.maxDomChanges = NumNodes]),
                NumNodes + 2)) = 1

\* ---------------------------------------------------------------- C32
\* The stage after the tick chain outstanding in it, if any, has run out.
drained(s) ==
  LET ticks == chain(s, NumNodes + 2)
  IN  IF ticks = <<>> THEN s ELSE ticks[Len(ticks)]

\* The mutations of a batch issued one after the other, nothing in between.
RECURSIVE mutateAll(_, _)
mutateAll(s, batch) ==
  IF batch = <<>> THEN s
  ELSE CHOOSE out \in {mutateAll(v, Tail(batch)) :
                         v \in {mutate(s, Head(batch))}} : TRUE

\* suspend(), the batch, one resume().
resumedAfter(s, batch) ==
  resume(Call(mutateAll(suspend(Call(s, "suspend")), batch), "resume"), FALSE)

\* The flush an unsuspended stage runs in its mode, and the batch with a
\* complete flush after every mutation.
flush(s) == IF s.asyncMode_ THEN renderAsync(s) ELSE render(s)

RECURSIVE flushedEach(_, _)
flushedEach(s, batch) ==
  IF batch = <<>> THEN s
  ELSE CHOOSE out \in
         {flushedEach(v, Tail(batch)) :
            v \in {drained(flush(Call(mutate(s, Head(batch)), "flush")))}} :
         TRUE

Batches == UNION {[1..len -> Mutations] : len \in 1..MaxBatch}

Starts(s) == Cardinality({i \in 1..Len(s.emitted) : s.emitted[i] = RENDER_START})

\* What the backend holds: the children and where the root element sits.
Backend(s) == <<s.rootLayer_, s.domParent, s.clipDirty>>

\* C32: N mutations issued while suspended followed by one resume() cause at
\* most one flush invocation (one synchronous flush, or one tick chain that
\* starts no second flush) and leave the backend in the state the same N
\* mutations leave it in when each is flushed on an unsuspended stage.
C32_Batching ==
  (suspended_ = 0 /\ timers = 0) =>
    \A batch \in Batches :
      LET resumed == resumedAfter(Cur, batch)
          ticks == chain(resumed, NumNodes + 2)
      IN  /\ Starts(resumed) <= 1
          /\ resumed.work <= 1
          /\ resumed.work = 1 => resumed.timers = 0
          /\ \A i \in 1..Len(ticks) : Starts(ticks[i]) = 0
          /\ Backend(drained(resumed)) = Backend(flushedEach(Cur, batch))

\* C32 witness: one resume() that flushed, in a single synchronous flush, a
\* mutation of every child issued while the stage was suspended.
C32_Witness ==
  /\ op = "resume"
  /\ suspended_ = 0
  /\ timers = 0
  /\ ~asyncMode_
  /\ work = 1
  /\ applied = NumNodes
  /\ Emitted(RENDER_FINISH)

\* ---------------------------------------------------------------- C38
\* The rendering flag as it stands when events[i] is dispatched, flag being
\* its value when the call began.
RECURSIVE flagAt(_, _, _)
flagAt(flag, events, i) ==
  IF i = 1 THEN flag
  ELSE renderingAfter(flagAt(flag, events, i - 1), events[i - 1])

RenderedOutsideFlush(flag, events) ==
  \A i \in 1..Len(events) :
    events[i] = STAGE_RENDERED => ~flagAt(flag, events, i)

Count(events, type) ==
  Cardinality({i \in 1..Len(events) : events[i] = type})

\* C38: STAGE_RENDERED is never dispatched while isRendering_ is true; the
\* stage has at most one COMPLETE listener registered with the image loader
\* at any time; and one COMPLETE makes the stage dispatch at most one
\* STAGE_RENDERED, however many flushes finished while the image loaded.
C38_OneRenderedPerComplete ==
  /\ [](loaderListeners <= 1)
  /\ [](op = "new" => RenderedOutsideFlush(FALSE, emitted))
  /\ [][/\ RenderedOutsideFlush(isRendering_, emitted')
        /\ op' = "loaderComplete" => Count(emitted', STAGE_RENDERED) <= 1
       ]_vars

\* C38 witness: the loader's COMPLETE ran the stage's one listener, which
\* dispatched STAGE_RENDERED on the idle stage.
C38_Witness ==
  /\ op = "loaderComplete"
  /\ emitted = <<STAGE_RENDERED>>
  /\ ~isRendering_
  /\ loaderListeners = 0
  /\ ~imageLoadingListener_

\* ---------------------------------------------------------------- C35
\* The call of this stage that a step of SpecPair made, made again.
again(s, name) ==
  CASE name = "render" -> render(Call(s, "render"))
    [] name = "renderAsync" -> renderAsync(Call(s, "renderAsync"))
    [] name = "tick" -> tick(s)

\* This stage on a page where no other stage has an image loading.
alone(s) == [s EXCEPT !.imageLoading = FALSE]

\* C35: no cross-instance state.  With two stages side by side, a step of
\* the second stage (suspend, resume, render, ticks, budget acquire and
\* release, a deferral of its STAGE_RENDERED by its image and the end of
\* that deferral) leaves this stage's suspend counter, rendering flag,
\* change counter, installed policy and pending clips unchanged and makes
\* this stage dispatch nothing; and every call of this stage leaves those
\* fields and dispatches those notifications that the same call leaves and
\* dispatches on a page without the second stage's image.
C35_NoCrossInstanceState ==
  [][/\ others' # others =>
          /\ UNCHANGED <<suspended_, isRendering_, currentDomChangesCount,
                         acquireDomChanges, clipsToRender_>>
          /\ (emitted' = emitted \/ emitted' = <<>>)
     /\ (others' = others /\ op' \in {"render", "renderAsync", "tick"}) =>
          LET single == again(alone(Cur), op')
          IN  /\ suspended_' = single.suspended_
              /\ isRendering_' = single.isRendering_
              /\ currentDomChangesCount' = single.currentDomChangesCount
              /\ acquireDomChanges' = single.acquireDomChanges
              /\ clipsToRender_' = single.clipsToRender_
              /\ emitted' = single.emitted
    ]_vars

\* ---------------------------------------------------------------- C39
\* The clips a flush over the queue renders, in order: those that are dirty
\* when their turn comes.
RECURSIVE DirtyInOrder(_, _)
DirtyInOrder(queue, dirty) ==
  IF queue = <<>> THEN <<>>
  ELSE IF dirty[Head(queue)]
    THEN <<Head(queue)>> \o
         DirtyInOrder(Tail(queue), [dirty EXCEPT ![Head(queue)] = FALSE])
    ELSE DirtyInOrder(Tail(queue), dirty)

\* The clips a call rendered, in order.
RECURSIVE ClipsRendered(_)
ClipsRendered(order) ==
  IF order = <<>> THEN <<>>
  ELSE IF Head(order)[1] = "clip"
    THEN <<Head(order)[2]>> \o ClipsRendered(Tail(order))
    ELSE ClipsRendered(Tail(order))

\* C39: addClipForRender(clip) on a suspended stage appends the clip to the
\* queue and renders nothing; on a stage that is not suspended it renders
\* the clip at once and leaves the queue as it is.  A flush renders the
\* queued clips that are still dirty, in queue order, no others, and
\* empties the queue.
C39_ClipQueue ==
  [][/\ op' = "addClipForRender" =>
          IF suspended_ # 0
            THEN /\ clipsToRender_' = Append(clipsToRender_, args'[1])
                 /\ flushOrder' = <<>>
                 /\ applied' = 0
                 /\ work' = 0
            ELSE /\ clipsToRender_' = clipsToRender_
                 /\ flushOrder' = <<<<"clip", args'[1]>>>>
                 /\ ~clipDirty'[args'[1]]
                 /\ work' = 0
     /\ work' >= 1 =>
          /\ ClipsRendered(flushOrder') = DirtyInOrder(clipsToRender_, clipDirty)
          /\ clipsToRender_' = <<>>
          /\ \A c \in Clips : ~clipDirty'[c]
     /\ (op' # "addClipForRender" /\ work' = 0) =>
          UNCHANGED <<clipsToRender_, clipDirty>>
    ]_vars

\* C39 witness: one resume() flushed a queue of two different clips, both
\* still dirty, the second clip first as it was queued first.
C39_Witness ==
  /\ op = "resume"
  /\ work = 1
  /\ flushOrder = <<<<"clip", 2>>, <<"clip", 1>>>>
  /\ clipsToRender_ = <<>>

=============================================================================
